---- MODULE Spec2Model ----
(***************************************************************************)
(* Model of the trip-planner backend (src/app.py): the /generate route,    *)
(* the background generation task with its validation-retry loop, the      *)
(* plan store, the /get_plan retrieval route and the /get_kakao_directions *)
(* proxy.                                                                  *)
(***************************************************************************)
EXTENDS Integers, Sequences, FiniteSets, TLC

VARIABLES model, db, Maps_API_KEY, KAKAO_API_KEY, store, task, resp

vars == <<model, db, Maps_API_KEY, KAKAO_API_KEY, store, task, resp>>

(* ------------------------------ bounds -------------------------------- *)

\* number of plan identifiers uuid4 can hand out in ConcSpec (concurrent tasks)
MaxPlans == 2

\* largest distance (m) and duration (s) of a route summary in ProxySpec
MaxMetres == 300
MaxSeconds == 130

(* --------------------------- program constants ------------------------ *)
\* the messages are the source's Korean strings, rendered in ASCII

MAX_RETRIES == 2

ERR_INIT == "AI model or database is not initialized"
ERR_DB == "DB is not initialized"
ERR_NOT_FOUND == "Plan not found"
ERR_NO_KEY == "no Kakao API key"
ERR_NO_COORDS == "no coordinates"
ERR_NO_ROUTE == "no route found"
ERR_KAKAO == "Kakao API error"
ERR_EXHAUSTED == "AI tried several times but produced no valid plan"

ADD_NOT_JSON == "[fix request] not JSON; answer in JSON only"
ADD_BAD_JSON == "[fix request] previous answer was not valid JSON; fix the syntax"
ADD_NO_DAYS == "[fix request] daily_plans is empty or missing; generate again"

Addenda == {ADD_NOT_JSON, ADD_BAD_JSON, ADD_NO_DAYS}

(* ------------------------- outcomes of a call ------------------------- *)

\* an external call returns, or raises an exception carrying a message
Returns == [raise |-> FALSE, msg |-> ""]
Raises(msgs) == {[raise |-> TRUE, msg |-> m] : m \in msgs}
Outcomes(msgs) == {Returns} \cup Raises(msgs)

(* ------------------------ model text, as tokens ------------------------ *)
\* A model response is a sequence of tokens: "FENCE" is the marker ```json,
\* "TICKS" is ```, "ws" is white space, "prose" is text without braces or
\* back-ticks, "{" and "}" are braces, and the remaining tokens are the
\* members of a JSON object ("key": value, separators included).
\* "strOpen" is the start of a "title" member up to the opening quote of its
\* string value and "strClose" is the closing quote; the tokens between
\* them are the characters of the string.

DayTokens == {"days3", "days2", "daysOut", "daysUnres", "days0", "daysStr"}
MemberTokens == DayTokens \cup {"title"}

\* the value of the "daily_plans" member each token writes
JList(items) == [t |-> "list", v |-> items]
JStr == [t |-> "str", v |-> <<>>]
JNull == [t |-> "null", v |-> <<>>]

Day(n, places) == [day |-> n, activities |-> places]

DaysValue(tok) ==
  CASE tok = "days3" -> JList(<<Day(1, <<"Gyeongbokgung", "Bukchon", "HotelSeoul">>)>>)
    [] tok = "days2" -> JList(<<Day(1, <<"Gyeongbokgung", "HotelSeoul">>)>>)
    [] tok = "daysOut" -> JList(<<Day(1, <<"Gyeongbokgung", "EiffelTower", "HotelSeoul">>)>>)
    [] tok = "daysUnres" -> JList(<<Day(1, <<"Gyeongbokgung", "Nowhere", "HotelSeoul">>)>>)
    [] tok = "days0" -> JList(<<>>)
    [] OTHER -> JStr

IsTicks(tok) == tok \in {"TICKS", "FENCE"}

RECURSIVE SkipWs(_, _)
\* \s* : the first position at or after k that holds no white space
SkipWs(text, k) ==
  IF k <= Len(text) /\ text[k] = "ws" THEN SkipWs(text, k + 1) ELSE k

\* does the fenced pattern match with the marker at s and the group ending at b
FencedAt(text, s, b) ==
  LET a == SkipWs(text, s + 1)
      c == SkipWs(text, b + 1)
  IN /\ text[s] = "FENCE"
     /\ a <= Len(text) /\ text[a] = "{"
     /\ b > a /\ b <= Len(text) /\ text[b] = "}"
     /\ c <= Len(text) /\ IsTicks(text[c])

Min(S) == CHOOSE x \in S : \A y \in S : x <= y
Max(S) == CHOOSE x \in S : \A y \in S : x >= y

NoMatch == [found |-> FALSE, groups |-> 0, span |-> <<>>]

\* re.search(r'```json\s*(\{.*?\})\s*```', raw_text, re.DOTALL): leftmost
\* marker that admits a match, shortest group from there
SearchFenced(text) ==
  LET starts == {s \in 1..Len(text) : \E b \in 1..Len(text) : FencedAt(text, s, b)}
  IN IF starts = {} THEN NoMatch
     ELSE LET s == Min(starts)
              b == Min({e \in 1..Len(text) : FencedAt(text, s, e)})
              a == SkipWs(text, s + 1)
          IN [found |-> TRUE, groups |-> 1, span |-> SubSeq(text, a, b)]

\* re.search(r'\{.*\}', raw_text, re.DOTALL): first "{" to last "}"
SearchBraces(text) ==
  LET opens == {k \in 1..Len(text) : text[k] = "{"}
  IN IF opens = {} THEN NoMatch
     ELSE LET a == Min(opens)
              closes == {k \in (a + 1)..Len(text) : text[k] = "}"}
          IN IF closes = {} THEN NoMatch
             ELSE [found |-> TRUE, groups |-> 0, span |-> SubSeq(text, a, Max(closes))]

\* line 151: the fenced search, or else the brace search
Extract(text) ==
  IF SearchFenced(text).found THEN SearchFenced(text) ELSE SearchBraces(text)

\* is position k of the candidate inside a string value
InString(cand, k) ==
  Cardinality({j \in 1..(k - 1) : cand[j] = "strOpen"}) >
    Cardinality({j \in 1..(k - 1) : cand[j] = "strClose"})

\* json.loads of a candidate: an object whose members are all well formed;
\* of two members with the same key the last one wins
JsonValid(cand) ==
  /\ Len(cand) >= 2
  /\ cand[1] = "{" /\ cand[Len(cand)] = "}"
  /\ ~InString(cand, Len(cand))
  /\ \A k \in 2..(Len(cand) - 1) :
       IF InString(cand, k) THEN cand[k] # "strOpen"
       ELSE cand[k] \in MemberTokens \cup {"ws", "strOpen"}

JsonLoads(cand) ==
  LET dayIdx == {k \in 1..Len(cand) : cand[k] \in DayTokens /\ ~InString(cand, k)}
      titleIdx == {k \in 1..Len(cand) :
                     cand[k] \in {"title", "strOpen"} /\ ~InString(cand, k)}
      titled == titleIdx # {}
      t == IF ~titled THEN <<>>
           ELSE IF cand[Max(titleIdx)] = "title"
             THEN "title" :> "custom travel course"
           ELSE "title" :> "quoted travel course"
      d == IF dayIdx = {} THEN <<>>
           ELSE "daily_plans" :> DaysValue(cand[Max(dayIdx)])
  IN t @@ d

\* dict.get(key): the value, or None
Get(dict, key) == IF key \in DOMAIN dict THEN dict[key] ELSE JNull

\* mutant: the emptiness test of line 163 is left out
HasDays_anyList(plan_data) ==
  Get(plan_data, "daily_plans").t = "list"

\* line 163: daily_plans is a list and is not empty
HasDays(plan_data) ==
  /\ Get(plan_data, "daily_plans").t = "list"
  /\ Get(plan_data, "daily_plans").v # <<>>

(* ------------------------------ requests ------------------------------- *)

\* TravelRequest bodies (request.json)
Requests ==
  { [destination |-> "Seoul", duration |-> "2 days"],
    [destination |-> "Busan", duration |-> "1 day"] }

\* lines 103-140: the f-string, as the fragments it concatenates
BuildPrompt(data) ==
  <<"PROMPT_HEAD", data.destination, data.duration, "PROMPT_FORMAT_AND_RULES">>

(* ------------------------------ geocoding ------------------------------ *)

NoCountry == "none"

\* get_geocode returning None
GeoNone == [found |-> FALSE, viewport |-> FALSE, country_code |-> NoCountry]

\* what the geocoding endpoint does with one request
GeoReplies ==
  { [kind |-> "request_error", viewport |-> FALSE, country_code |-> NoCountry],
    [kind |-> "not_ok", viewport |-> FALSE, country_code |-> NoCountry],
    [kind |-> "malformed", viewport |-> FALSE, country_code |-> NoCountry] }
  \cup [kind : {"ok"}, viewport : BOOLEAN, country_code : {"KR", NoCountry}]

\* lines 76-92. called: whether the endpoint was requested.
get_geocode(key, reply) ==
  IF ~key THEN [raise |-> FALSE, msg |-> "", called |-> FALSE, value |-> GeoNone]
  ELSE CASE reply.kind = "request_error" ->
              [raise |-> FALSE, msg |-> "", called |-> TRUE, value |-> GeoNone]
         [] reply.kind = "not_ok" ->
              [raise |-> FALSE, msg |-> "", called |-> TRUE, value |-> GeoNone]
         [] reply.kind = "malformed" ->
              [raise |-> TRUE, msg |-> "KeyError", called |-> TRUE, value |-> GeoNone]
         [] OTHER ->
              [raise |-> FALSE, msg |-> "", called |-> TRUE,
               value |-> [found |-> TRUE, viewport |-> reply.viewport,
                          country_code |-> reply.country_code]]

(* ------------------------------ the store ------------------------------ *)

\* store: the 'plans' collection, a function from the ids of the documents
\* that exist to their contents
Exists(st, id) == id \in DOMAIN st

\* doc_ref.set(value): create or overwrite the whole document
DocSet(st, id, value) ==
  [q \in DOMAIN st \cup {id} |-> IF q = id THEN value ELSE st[q]]

ProcessingRecord(data) == [status |-> "processing", request_details |-> data]
CompletedRecord(plan, data) ==
  [plan |-> plan, request_details |-> data, status |-> "completed"]
\* mutant: the failed record is written without the request
FailedRecord_noRequest(msg, data) == [status |-> "failed", error |-> msg]
FailedRecord(msg, data) ==
  [status |-> "failed", error |-> msg, request_details |-> data]

(* ------------------------------ the tasks ------------------------------ *)

\* task: the background threads started so far, by plan_id, each with the
\* locals of create_plan_in_background; calls, gcalls and sent record the
\* model calls made, the geocoding requests made and the prompts sent,
\* replies the texts the model returned, and raised whether a collaborator
\* (store, geocoding, model) raised an exception in this task
NewTask(data) ==
  [pc |-> "begin", data |-> data, prompt |-> <<>>, i |-> 0, geo |-> GeoNone,
   raw_text |-> <<>>, validated |-> <<>>, err |-> "",
   calls |-> 0, gcalls |-> 0, sent |-> <<>>, replies |-> <<>>, raised |-> FALSE]

Started(id) == id \in DOMAIN task

NoResponse == [route |-> "none", code |-> 0, io |-> <<>>]

Init ==
  /\ model \in BOOLEAN
  /\ db \in BOOLEAN
  /\ Maps_API_KEY \in BOOLEAN
  /\ KAKAO_API_KEY \in BOOLEAN
  /\ store = <<>>
  /\ task = <<>>
  /\ resp = NoResponse

(* ------------------------- POST /generate ------------------------------ *)

\* mutant: the route writes the 'processing' record itself before it answers
generate_plan_writesFirst(ids, data, o) ==
  /\ IF ~model \/ ~db
       THEN /\ resp' = [route |-> "generate", code |-> 500, error |-> ERR_INIT, io |-> <<>>]
            /\ task' = task /\ store' = store
       ELSE IF o.raise
         THEN /\ resp' = [route |-> "generate", code |-> 500, error |-> o.msg, io |-> <<>>]
              /\ task' = task /\ store' = store
         ELSE \E plan_id \in ids \ DOMAIN task :
              /\ store' = DocSet(store, plan_id, ProcessingRecord(data))
              /\ task' = [q \in DOMAIN task \cup {plan_id} |->
                            IF q = plan_id THEN [NewTask(data) EXCEPT !.pc = "geocode"]
                            ELSE task[q]]
              /\ resp' = [route |-> "generate", code |-> 200, plan_id |-> plan_id,
                          io |-> <<"store.set">>]
  /\ UNCHANGED <<model, db, Maps_API_KEY, KAKAO_API_KEY>>

\* mutant: the guard of line 234 asks that both subsystems be missing
generate_plan_bothMissing(ids, data, o) ==
  /\ IF ~model /\ ~db
       THEN /\ resp' = [route |-> "generate", code |-> 500, error |-> ERR_INIT, io |-> <<>>]
            /\ task' = task
       ELSE IF o.raise
         THEN /\ resp' = [route |-> "generate", code |-> 500, error |-> o.msg, io |-> <<>>]
              /\ task' = task
         ELSE \E plan_id \in ids \ DOMAIN task :
              /\ task' = [q \in DOMAIN task \cup {plan_id} |->
                            IF q = plan_id THEN NewTask(data) ELSE task[q]]
              /\ resp' = [route |-> "generate", code |-> 200, plan_id |-> plan_id, io |-> <<>>]
  /\ UNCHANGED <<model, db, Maps_API_KEY, KAKAO_API_KEY, store>>

\* lines 231-252. ids: the identifiers uuid4 may return, of which it returns
\* one not returned before; o: whether reading the request or starting the
\* thread raises
generate_plan(ids, data, o) ==
  /\ IF ~model \/ ~db
       THEN /\ resp' = [route |-> "generate", code |-> 500, error |-> ERR_INIT, io |-> <<>>]
            /\ task' = task
       ELSE IF o.raise
         THEN /\ resp' = [route |-> "generate", code |-> 500, error |-> o.msg, io |-> <<>>]
              /\ task' = task
         ELSE \E plan_id \in ids \ DOMAIN task :
              /\ task' = [q \in DOMAIN task \cup {plan_id} |->
                            IF q = plan_id THEN NewTask(data) ELSE task[q]]
              /\ resp' = [route |-> "generate", code |-> 200, plan_id |-> plan_id, io |-> <<>>]
  /\ UNCHANGED <<model, db, Maps_API_KEY, KAKAO_API_KEY, store>>

(* --------------------- create_plan_in_background ----------------------- *)

SetTask(id, t) == [task EXCEPT ![id] = t]

\* lines 98-99: the first write, outside the try block; if it raises the
\* thread ends with the exception
BgBegin(id, o) ==
  /\ Started(id) /\ task[id].pc = "begin"
  /\ IF o.raise
       THEN /\ task' = SetTask(id, [task[id] EXCEPT !.pc = "crashed", !.err = o.msg,
                                                      !.raised = TRUE])
            /\ store' = store
       ELSE /\ store' = DocSet(store, id, ProcessingRecord(task[id].data))
            /\ task' = SetTask(id, [task[id] EXCEPT !.pc = "geocode"])
  /\ UNCHANGED <<model, db, Maps_API_KEY, KAKAO_API_KEY, resp>>

\* lines 103-144: build the prompt, geocode the destination
BgGeocode(id, reply) ==
  /\ Started(id) /\ task[id].pc = "geocode"
  /\ LET t == task[id]
         g == get_geocode(Maps_API_KEY, reply)
         t1 == [t EXCEPT !.prompt = BuildPrompt(t.data),
                         !.gcalls = IF g.called THEN @ + 1 ELSE @]
     IN task' = SetTask(id,
          IF g.raise THEN [t1 EXCEPT !.pc = "except", !.err = g.msg, !.raised = TRUE]
          ELSE [t1 EXCEPT !.pc = "attempt", !.geo = g.value])
  /\ UNCHANGED <<model, db, Maps_API_KEY, KAKAO_API_KEY, store, resp>>

\* mutant: a JSON syntax error gets the addendum of the missing JSON object
Validate_sameAddendum(raw_text) ==
  LET match == Extract(raw_text)
      plan_json_str == match.span
  IN IF ~match.found THEN [kind |-> "not_json", addendum |-> ADD_NOT_JSON, str |-> <<>>]
     ELSE IF ~JsonValid(plan_json_str)
       THEN [kind |-> "bad_json", addendum |-> ADD_NOT_JSON, str |-> <<>>]
     ELSE IF ~HasDays(JsonLoads(plan_json_str))
       THEN [kind |-> "no_days", addendum |-> ADD_NO_DAYS, str |-> <<>>]
     ELSE [kind |-> "valid", addendum |-> "", str |-> plan_json_str]

\* lines 151-173: what one pass of the loop body does with the model's text
\* kind: "not_json", "bad_json", "no_days" or "valid"
Validate(raw_text) ==
  LET match == Extract(raw_text)
      plan_json_str == match.span
  IN IF ~match.found THEN [kind |-> "not_json", addendum |-> ADD_NOT_JSON, str |-> <<>>]
     ELSE IF ~JsonValid(plan_json_str)
       THEN [kind |-> "bad_json", addendum |-> ADD_BAD_JSON, str |-> <<>>]
     ELSE IF ~HasDays(JsonLoads(plan_json_str))
       THEN [kind |-> "no_days", addendum |-> ADD_NO_DAYS, str |-> <<>>]
     ELSE [kind |-> "valid", addendum |-> "", str |-> plan_json_str]

\* mutant: the corrective addendum is put in front of the prompt
BgAttempt_prepends(id, o, text) ==
  /\ Started(id) /\ task[id].pc = "attempt" /\ task[id].i < MAX_RETRIES
  /\ LET t == task[id]
         t1 == [t EXCEPT !.calls = @ + 1, !.sent = Append(@, t.prompt)]
         v == Validate(text)
         t2 == [t1 EXCEPT !.raw_text = text, !.replies = Append(@, text)]
     IN task' = SetTask(id,
          IF o.raise THEN [t1 EXCEPT !.pc = "except", !.err = o.msg, !.raised = TRUE]
          ELSE IF v.kind = "valid"
            THEN [t2 EXCEPT !.validated = v.str, !.pc = "save"]
          ELSE IF t.i + 1 < MAX_RETRIES
            THEN [t2 EXCEPT !.prompt = <<v.addendum>> \o @, !.i = @ + 1]
          ELSE [t2 EXCEPT !.prompt = <<v.addendum>> \o @, !.i = @ + 1,
                          !.pc = "except", !.err = ERR_EXHAUSTED])
  /\ UNCHANGED <<model, db, Maps_API_KEY, KAKAO_API_KEY, store, resp>>

\* mutant: an exception of the model call is taken as one more failed attempt
BgAttempt_retriesOnRaise(id, o, text) ==
  /\ Started(id) /\ task[id].pc = "attempt" /\ task[id].i < MAX_RETRIES
  /\ LET t == task[id]
         t1 == [t EXCEPT !.calls = @ + 1, !.sent = Append(@, t.prompt)]
         v == Validate(text)
         t2 == [t1 EXCEPT !.raw_text = text, !.replies = Append(@, text)]
     IN task' = SetTask(id,
          IF o.raise /\ t.i + 1 < MAX_RETRIES
            THEN [t1 EXCEPT !.i = @ + 1, !.raised = TRUE]
          ELSE IF o.raise
            THEN [t1 EXCEPT !.pc = "except", !.err = o.msg, !.raised = TRUE]
          ELSE IF v.kind = "valid"
            THEN [t2 EXCEPT !.validated = v.str, !.pc = "save"]
          ELSE IF t.i + 1 < MAX_RETRIES
            THEN [t2 EXCEPT !.prompt = Append(@, v.addendum), !.i = @ + 1]
          ELSE [t2 EXCEPT !.prompt = Append(@, v.addendum), !.i = @ + 1,
                          !.pc = "except", !.err = ERR_EXHAUSTED])
  /\ UNCHANGED <<model, db, Maps_API_KEY, KAKAO_API_KEY, store, resp>>

\* mutant: the loop goes on after an attempt has passed validation
BgAttempt_noBreak(id, o, text) ==
  /\ Started(id) /\ task[id].pc = "attempt" /\ task[id].i < MAX_RETRIES
  /\ LET t == task[id]
         t1 == [t EXCEPT !.calls = @ + 1, !.sent = Append(@, t.prompt)]
         v == Validate(text)
         t2 == [t1 EXCEPT !.raw_text = text, !.replies = Append(@, text)]
     IN task' = SetTask(id,
          IF o.raise THEN [t1 EXCEPT !.pc = "except", !.err = o.msg, !.raised = TRUE]
          ELSE IF v.kind = "valid" /\ t.i + 1 < MAX_RETRIES
            THEN [t2 EXCEPT !.validated = v.str, !.i = @ + 1]
          ELSE IF v.kind = "valid"
            THEN [t2 EXCEPT !.validated = v.str, !.pc = "save"]
          ELSE IF t.i + 1 < MAX_RETRIES
            THEN [t2 EXCEPT !.prompt = Append(@, v.addendum), !.i = @ + 1]
          ELSE [t2 EXCEPT !.prompt = Append(@, v.addendum), !.i = @ + 1,
                          !.pc = "except", !.err = ERR_EXHAUSTED])
  /\ UNCHANGED <<model, db, Maps_API_KEY, KAKAO_API_KEY, store, resp>>

\* lines 146-176: one iteration of the loop: the model call and the checks
\* of its text; after the last iteration, line 175
BgAttempt(id, o, text) ==
  /\ Started(id) /\ task[id].pc = "attempt" /\ task[id].i < MAX_RETRIES
  /\ LET t == task[id]
         t1 == [t EXCEPT !.calls = @ + 1, !.sent = Append(@, t.prompt)]
         v == Validate(text)
         t2 == [t1 EXCEPT !.raw_text = text, !.replies = Append(@, text)]
     IN task' = SetTask(id,
          IF o.raise THEN [t1 EXCEPT !.pc = "except", !.err = o.msg, !.raised = TRUE]
          ELSE IF v.kind = "valid"
            THEN [t2 EXCEPT !.validated = v.str, !.pc = "save"]
          ELSE IF t.i + 1 < MAX_RETRIES
            THEN [t2 EXCEPT !.prompt = Append(@, v.addendum), !.i = @ + 1]
          ELSE [t2 EXCEPT !.prompt = Append(@, v.addendum), !.i = @ + 1,
                          !.pc = "except", !.err = ERR_EXHAUSTED])
  /\ UNCHANGED <<model, db, Maps_API_KEY, KAKAO_API_KEY, store, resp>>

\* mutant: the country_code of the lookup is stored without the test that
\* there is one
FinalPlan_noTest(validated_plan_str, geo) ==
  IF geo.found
    THEN ("country_code" :> geo.country_code) @@ JsonLoads(validated_plan_str)
    ELSE JsonLoads(validated_plan_str)

\* lines 178-180: the plan that is stored
FinalPlan(validated_plan_str, geo) ==
  IF geo.found /\ geo.country_code # NoCountry
    THEN ("country_code" :> geo.country_code) @@ JsonLoads(validated_plan_str)
    ELSE JsonLoads(validated_plan_str)

\* mutant: the exception comes after the completed record has been written
BgSave_raisesAfterWrite(id, o) ==
  /\ Started(id) /\ task[id].pc = "save"
  /\ LET t == task[id]
     IN /\ store' = DocSet(store, id,
                CompletedRecord(FinalPlan(t.validated, t.geo), t.data))
        /\ task' = SetTask(id,
             IF o.raise THEN [t EXCEPT !.pc = "except", !.err = o.msg, !.raised = TRUE]
             ELSE [t EXCEPT !.pc = "done"])
  /\ UNCHANGED <<model, db, Maps_API_KEY, KAKAO_API_KEY, resp>>

\* lines 178-184: write the completed record; a write that raises has not
\* been applied
BgSave(id, o) ==
  /\ Started(id) /\ task[id].pc = "save"
  /\ LET t == task[id]
     IN IF o.raise
          THEN /\ task' = SetTask(id, [t EXCEPT !.pc = "except", !.err = o.msg,
                                                  !.raised = TRUE])
               /\ store' = store
          ELSE /\ store' = DocSet(store, id,
                     CompletedRecord(FinalPlan(t.validated, t.geo), t.data))
               /\ task' = SetTask(id, [t EXCEPT !.pc = "done"])
  /\ UNCHANGED <<model, db, Maps_API_KEY, KAKAO_API_KEY, resp>>

\* mutant: the handler writes the failed record to the document of the task
\* started last, as a doc_ref shared between the threads would
BgExcept_sharedRef(id, o) ==
  /\ Started(id) /\ task[id].pc = "except"
  /\ LET t == task[id]
     IN IF o.raise
          THEN /\ task' = SetTask(id, [t EXCEPT !.pc = "crashed", !.err = o.msg,
                                                  !.raised = TRUE])
               /\ store' = store
          ELSE /\ store' = DocSet(store, Max(DOMAIN task), FailedRecord(t.err, t.data))
               /\ task' = SetTask(id, [t EXCEPT !.pc = "done"])
  /\ UNCHANGED <<model, db, Maps_API_KEY, KAKAO_API_KEY, resp>>

\* lines 186-188: the handler writes the failed record; if that write
\* raises, the thread ends with the exception
BgExcept(id, o) ==
  /\ Started(id) /\ task[id].pc = "except"
  /\ LET t == task[id]
     IN IF o.raise
          THEN /\ task' = SetTask(id, [t EXCEPT !.pc = "crashed", !.err = o.msg,
                                                  !.raised = TRUE])
               /\ store' = store
          ELSE /\ store' = DocSet(store, id, FailedRecord(t.err, t.data))
               /\ task' = SetTask(id, [t EXCEPT !.pc = "done"])
  /\ UNCHANGED <<model, db, Maps_API_KEY, KAKAO_API_KEY, resp>>

(* ------------------------- GET /get_plan/<id> -------------------------- *)

\* mutant: the test of doc.exists is left out and a missing document is
\* served as an empty record
get_plan_noExistsTest(plan_id, o) ==
  /\ resp' =
       IF ~db THEN [route |-> "get_plan", code |-> 500, id |-> plan_id,
                    error |-> ERR_DB, io |-> <<>>]
       ELSE IF o.raise
         THEN [route |-> "get_plan", code |-> 500, id |-> plan_id,
               error |-> o.msg, io |-> <<"store.get">>]
       ELSE [route |-> "get_plan", code |-> 200, id |-> plan_id,
             body |-> IF Exists(store, plan_id) THEN store[plan_id] ELSE <<>>,
             io |-> <<"store.get">>]
  /\ UNCHANGED <<model, db, Maps_API_KEY, KAKAO_API_KEY, store, task>>

\* lines 200-207. o: whether the read of the store raises. The body is the
\* document's dict as JSON: the same keys with the same values.
get_plan(plan_id, o) ==
  /\ resp' =
       IF ~db THEN [route |-> "get_plan", code |-> 500, id |-> plan_id,
                    error |-> ERR_DB, io |-> <<>>]
       ELSE IF o.raise
         THEN [route |-> "get_plan", code |-> 500, id |-> plan_id,
               error |-> o.msg, io |-> <<"store.get">>]
       ELSE IF Exists(store, plan_id)
         THEN [route |-> "get_plan", code |-> 200, id |-> plan_id,
               body |-> store[plan_id], io |-> <<"store.get">>]
       ELSE [route |-> "get_plan", code |-> 404, id |-> plan_id,
             error |-> ERR_NOT_FOUND, io |-> <<"store.get">>]
  /\ UNCHANGED <<model, db, Maps_API_KEY, KAKAO_API_KEY, store, task>>

(* --------------------- POST /get_kakao_directions ---------------------- *)

\* distances (m) whose tenth-of-km tie the binary value of d/1000 settles upwards
TieRoundsUp ==
  {50, 450, 550, 650, 750, 1050, 1350, 1550, 1750, 1850, 2350, 2450, 2750, 2850, 2950}

\* f"{distance/1000:.1f}": the number of tenths of a km printed
KmTenths(distance) ==
  LET q == distance \div 100
      r == distance % 100
  IN IF r > 50 \/ (r = 50 /\ distance \in TieRoundsUp) THEN q + 1 ELSE q

\* mutant: the minutes are rounded to the nearest instead of cut
Reshape_roundedMinutes(summary) ==
  [distance_tenths_km |-> KmTenths(summary.distance),
   duration_min |-> (summary.duration + 30) \div 60]

\* line 226: the reshaped summary
Reshape(summary) ==
  [distance_tenths_km |-> KmTenths(summary.distance),
   duration_min |-> summary.duration \div 60]

Summaries ==
  { [distance |-> 12345, duration |-> 1530],
    [distance |-> 250, duration |-> 59],
    [distance |-> 50, duration |-> 60] }

\* what the routing endpoint does with one request: a transport or HTTP
\* error, a body that is not the expected JSON, or a list of routes
RoutingReplies ==
  { [kind |-> "error", routes |-> <<>>], [kind |-> "malformed", routes |-> <<>>],
    [kind |-> "ok", routes |-> <<>>] }
  \cup { [kind |-> "ok", routes |-> <<s>>] : s \in Summaries }
  \cup { [kind |-> "ok", routes |-> <<s, [distance |-> 999, duration |-> 1]>>] : s \in Summaries }

\* the request body: which of origin and destination are given, and whether
\* the given ones carry lat and lng
DirectionRequests == [origin : BOOLEAN, destination : BOOLEAN, coords : BOOLEAN]

\* mutant: a failed upstream call is tried once more before answering
get_kakao_directions_retry(data, reply) ==
  /\ resp' =
       IF ~KAKAO_API_KEY
         THEN [route |-> "directions", code |-> 500, error |-> ERR_NO_KEY, io |-> <<>>,
               request |-> data]
       ELSE IF ~data.origin \/ ~data.destination
         THEN [route |-> "directions", code |-> 400, error |-> ERR_NO_COORDS, io |-> <<>>,
               request |-> data]
       ELSE IF ~data.coords
         THEN [route |-> "directions", code |-> 500, error |-> "Internal Server Error",
               io |-> <<>>, request |-> data]
       ELSE IF reply.kind # "ok"
         THEN [route |-> "directions", code |-> 500, error |-> ERR_KAKAO,
               io |-> <<"routing.get", "routing.get">>, request |-> data, reply |-> reply]
       ELSE IF reply.routes # <<>>
         THEN [route |-> "directions", code |-> 200, body |-> Reshape(reply.routes[1]),
               io |-> <<"routing.get">>, request |-> data, reply |-> reply]
       ELSE [route |-> "directions", code |-> 404, error |-> ERR_NO_ROUTE,
             io |-> <<"routing.get">>, request |-> data, reply |-> reply]
  /\ UNCHANGED <<model, db, Maps_API_KEY, KAKAO_API_KEY, store, task>>

\* lines 209-229. In the response, request and reply record the body that
\* was posted and what the routing endpoint answered when it was called.
get_kakao_directions(data, reply) ==
  /\ resp' =
       IF ~KAKAO_API_KEY
         THEN [route |-> "directions", code |-> 500, error |-> ERR_NO_KEY, io |-> <<>>,
               request |-> data]
       ELSE IF ~data.origin \/ ~data.destination
         THEN [route |-> "directions", code |-> 400, error |-> ERR_NO_COORDS, io |-> <<>>,
               request |-> data]
       ELSE IF ~data.coords
         THEN [route |-> "directions", code |-> 500, error |-> "Internal Server Error",
               io |-> <<>>, request |-> data]
       ELSE IF reply.kind # "ok"
         THEN [route |-> "directions", code |-> 500, error |-> ERR_KAKAO,
               io |-> <<"routing.get">>, request |-> data, reply |-> reply]
       ELSE IF reply.routes # <<>>
         THEN [route |-> "directions", code |-> 200, body |-> Reshape(reply.routes[1]),
               io |-> <<"routing.get">>, request |-> data, reply |-> reply]
       ELSE [route |-> "directions", code |-> 404, error |-> ERR_NO_ROUTE,
             io |-> <<"routing.get">>, request |-> data, reply |-> reply]
  /\ UNCHANGED <<model, db, Maps_API_KEY, KAKAO_API_KEY, store, task>>

(* --------------------------- specifications ---------------------------- *)

PlanIds == 1..MaxPlans

\* model responses
T_prose == <<"prose">>
T_fenced == <<"prose", "FENCE", "ws", "{", "title", "days3", "}", "ws", "TICKS", "prose">>
T_bare == <<"prose", "{", "title", "days3", "}">>
T_syntax == <<"{", "title", "prose", "days3", "}">>
T_empty == <<"{", "title", "days0", "}">>
T_missing == <<"{", "title", "}">>
T_notlist == <<"{", "daysStr", "}">>
T_short == <<"{", "title", "days2", "}">>
T_outside == <<"FENCE", "{", "daysOut", "}", "TICKS">>
T_unresolved == <<"{", "title", "daysUnres", "}">>
T_nested == <<"{", "prose", "FENCE", "{", "days3", "}", "TICKS", "}">>
T_quoted ==
  <<"FENCE", "ws", "{", "strOpen", "{", "prose", "}", "TICKS", "strClose",
    "days3", "}", "ws", "TICKS">>

RawTexts ==
  { T_prose, T_fenced, T_bare, T_syntax, T_empty, T_missing, T_notlist,
    T_short, T_outside, T_unresolved, T_nested, T_quoted }

ExcMsgs == {"internal error A", "internal error B"}

\* the steps of generation and retrieval, with the inputs drawn from the
\* given sets
Step(ids, reqs, texts, geos, msgs) ==
  \/ \E data \in reqs, o \in Outcomes(msgs) : generate_plan(ids, data, o)
  \/ \E id \in ids, o \in Outcomes(msgs) : BgBegin(id, o)
  \/ \E id \in ids, reply \in geos : BgGeocode(id, reply)
  \/ \E id \in ids, o \in Outcomes(msgs), text \in texts : BgAttempt(id, o, text)
  \/ \E id \in ids, o \in Outcomes(msgs) : BgSave(id, o)
  \/ \E id \in ids, o \in Outcomes(msgs) : BgExcept(id, o)
  \/ \E id \in ids, o \in Outcomes(msgs) : get_plan(id, o)

\* the routing endpoint replies only to a request that is sent
DirectionsWith(replies) ==
  \E data \in DirectionRequests :
    \E reply \in IF data.origin /\ data.destination /\ data.coords
                   THEN replies ELSE {[kind |-> "error", routes |-> <<>>]} :
      get_kakao_directions(data, reply)

Directions == DirectionsWith(RoutingReplies)

\* Spec: one generation request with every model response, geocoding reply
\* and exception, the polling client and the directions proxy
Next == Step({1}, Requests, RawTexts, GeoReplies, ExcMsgs) \/ Directions

Spec == Init /\ [][Next]_vars

\* the background task keeps being scheduled
Fairness ==
  /\ WF_vars(\E o \in Outcomes(ExcMsgs) : BgBegin(1, o))
  /\ WF_vars(\E reply \in GeoReplies : BgGeocode(1, reply))
  /\ WF_vars(\E o \in Outcomes(ExcMsgs), text \in RawTexts : BgAttempt(1, o, text))
  /\ WF_vars(\E o \in Outcomes(ExcMsgs) : BgSave(1, o))
  /\ WF_vars(\E o \in Outcomes(ExcMsgs) : BgExcept(1, o))

FairSpec == Spec /\ Fairness

\* ConcSpec: up to MaxPlans concurrent generation requests, each with a
\* model that answers with prose or with a valid plan
ConcNext ==
  Step(PlanIds, {r \in Requests : r.destination = "Seoul"}, {T_prose, T_bare},
       {g \in GeoReplies : g.kind = "request_error"}, {"internal error A"})

ConcInit == Init /\ model /\ db /\ Maps_API_KEY /\ KAKAO_API_KEY

ConcSpec == ConcInit /\ [][ConcNext]_vars

\* ProxySpec: the directions proxy alone, with every distance up to
\* MaxMetres and every duration up to MaxSeconds
ProxySummaries ==
  { [distance |-> d, duration |-> 1530] : d \in (0..MaxMetres) \cup {12345} }
  \cup { [distance |-> 12345, duration |-> t] : t \in 0..MaxSeconds }

ProxyReplies ==
  { r \in RoutingReplies : r.routes = <<>> }
  \cup { [kind |-> "ok", routes |-> <<s>>] : s \in ProxySummaries }

ProxyNext == DirectionsWith(ProxyReplies)

ProxyInit == Init /\ ~model /\ ~db /\ ~Maps_API_KEY

ProxySpec == ProxyInit /\ [][ProxyNext]_vars

(* ------------------------------- claims -------------------------------- *)

Ended(id) == task[id].pc \in {"done", "crashed"}

Settled(id) == Exists(store, id) /\ store[id].status \in {"completed", "failed"}

\* the model outputs that are invalid: no JSON object, unparsable JSON, a
\* missing, non-list or empty daily_plans
InvalidTexts == {T_prose, T_syntax, T_empty, T_missing, T_notlist}

\* the corrective addendum each invalid output calls for
AddendumFor(text) ==
  CASE text = T_prose -> ADD_NOT_JSON
    [] text = T_syntax -> ADD_BAD_JSON
    [] OTHER -> ADD_NO_DAYS

\* the valid, structurally sound outputs and the plan each one carries
SoundTexts == {T_fenced, T_bare, T_nested}

SoundDays == <<[day |-> 1, activities |-> <<"Gyeongbokgung", "Bukchon", "HotelSeoul">>]>>

PlanIn(text) ==
  IF text = T_nested
    THEN [daily_plans |-> [t |-> "list", v |-> SoundDays]]
    ELSE [title |-> "custom travel course", daily_plans |-> [t |-> "list", v |-> SoundDays]]

Without(dict, key) == [k \in DOMAIN dict \ {key} |-> dict[k]]

Elements(seq) == {seq[k] : k \in 1..Len(seq)}

\* C1 (as claimed): once /generate has returned a plan_id, a GET /get_plan
\* for that id answered before the background task has ended returns the
\* record with status 'processing', never 404 (a failed read of the store
\* aside).
C1_PollSeesProcessing ==
  ( /\ resp.route = "get_plan"
    /\ resp.code # 500
    /\ Started(resp.id)
    /\ ~Ended(resp.id) )
  => (resp.code = 200 /\ resp.body.status = "processing")

\* C2 (as claimed): every generation request that was accepted eventually
\* has a record whose status is 'completed' or 'failed', while the
\* background task keeps being scheduled and every external call returns or
\* raises.
C2_EventuallySettled == Started(1) ~> Settled(1)

\* C3: when the model returns invalid output on every attempt (and no
\* collaborator raises), no plan is ever stored, and the task ends after
\* exactly 2 model calls with the record 'failed', carrying the error
\* message of exhaustion and no plan.
C3_ExhaustedAfterTwoCalls ==
  \A id \in DOMAIN task :
    LET t == task[id]
    IN (~t.raised /\ Elements(t.replies) \subseteq InvalidTexts) =>
         /\ Exists(store, id) => "plan" \notin DOMAIN store[id]
         /\ t.calls <= 2
         /\ t.pc = "done" =>
              /\ t.calls = 2 /\ Len(t.replies) = 2
              /\ Exists(store, id)
              /\ store[id].status = "failed"
              /\ store[id].error = ERR_EXHAUSTED

C3_Witness ==
  /\ Started(1) /\ task[1].pc = "done" /\ ~task[1].raised
  /\ task[1].replies = <<T_prose, T_empty>>
  /\ Settled(1) /\ store[1].status = "failed"

\* C4: when the model returns invalid output on attempt 1 and a valid,
\* sound plan on attempt 2 (and no collaborator raises), the record is
\* 'completed' with the plan of attempt 2 (country_code aside), and the
\* prompt of attempt 2 is the prompt of attempt 1 followed by the addendum
\* for the failure of attempt 1, which the first prompt does not contain.
C4_SecondAttemptSucceeds ==
  \A id \in DOMAIN task :
    LET t == task[id]
    IN ( /\ t.pc = "done" /\ ~t.raised
         /\ Len(t.replies) = 2
         /\ t.replies[1] \in InvalidTexts
         /\ t.replies[2] \in SoundTexts ) =>
         /\ Exists(store, id)
         /\ store[id].status = "completed"
         /\ Without(store[id].plan, "country_code") = PlanIn(t.replies[2])
         /\ t.calls = 2 /\ Len(t.sent) = 2
         /\ t.sent[2] = t.sent[1] \o <<AddendumFor(t.replies[1])>>
         /\ AddendumFor(t.replies[1]) \notin Elements(t.sent[1])

C4_Witness ==
  /\ Started(1) /\ task[1].pc = "done" /\ ~task[1].raised
  /\ task[1].replies = <<T_syntax, T_fenced>>
  /\ Settled(1) /\ store[1].status = "completed"

PlanDays(record) == record.plan["daily_plans"].v

\* where each place lies relative to the destination's viewport, as the
\* geocoding collaborator would answer
PlaceGeocode(place) ==
  CASE place \in {"Gyeongbokgung", "Bukchon", "HotelSeoul"} -> "inside"
    [] place = "EiffelTower" -> "outside"
    [] OTHER -> "none"

\* C5 (as claimed): every plan stored with status 'completed' has a
\* non-empty day list in which every day has at least 3 activities.
C5_CompletedDaysHaveThreeActivities ==
  \A id \in DOMAIN store :
    store[id].status = "completed" =>
      /\ PlanDays(store[id]) # <<>>
      /\ \A k \in 1..Len(PlanDays(store[id])) :
           Len(PlanDays(store[id])[k].activities) >= 3

\* C6 (as claimed): when the destination's geocode result has a viewport,
\* no plan with a place that fails to geocode or lies outside the viewport
\* is stored with status 'completed'.
C6_CompletedPlacesInsideViewport ==
  \A id \in DOMAIN store :
    (store[id].status = "completed" /\ task[id].geo.found /\ task[id].geo.viewport) =>
      \A k \in 1..Len(PlanDays(store[id])) :
        \A a \in 1..Len(PlanDays(store[id])[k].activities) :
          PlaceGeocode(PlanDays(store[id])[k].activities[a]) = "inside"

\* a step in which a route answers (a response equal to the previous one
\* changes nothing at all)
Answers(route) == resp' # resp /\ resp'.route = route

SameRecord(id) ==
  /\ Exists(store', id) = Exists(store, id)
  /\ Exists(store, id) => store'[id] = store[id]

\* C7: with the model and the store initialized, POST /generate answers on
\* the request path, making no model, geocoding or store call and leaving
\* the store and every running task as they were; the plan_id it returns
\* was not in use, and its background task has not taken any step.
C7_GenerateAnswersWithoutWaiting ==
  [][ (Answers("generate") /\ model /\ db) =>
        /\ store' = store
        /\ resp'.io = <<>>
        /\ \A id \in DOMAIN task : task'[id] = task[id]
        /\ resp'.code \in {200, 500}
        /\ resp'.code = 500 => DOMAIN task' = DOMAIN task
        /\ resp'.code = 200 =>
             /\ resp'.plan_id \notin DOMAIN task
             /\ resp'.plan_id \notin DOMAIN store
             /\ DOMAIN task' = DOMAIN task \cup {resp'.plan_id}
             /\ task'[resp'.plan_id].pc = "begin"
             /\ task'[resp'.plan_id].calls = 0
             /\ task'[resp'.plan_id].gcalls = 0 ]_vars

\* the plan_id has been returned while an earlier task is still waiting for
\* the model and the new task has not begun
C7_Witness ==
  /\ resp.route = "generate" /\ resp.code = 200
  /\ Started(resp.plan_id) /\ task[resp.plan_id].pc = "begin"
  /\ ~Exists(store, resp.plan_id)
  /\ \E id \in DOMAIN task : task[id].pc = "attempt"

\* C8: a route whose subsystem is not initialized answers 500 with its
\* message and does nothing else: /generate starts no task and writes no
\* record, /get_plan reads nothing, /get_kakao_directions calls nothing.
C8_UninitializedAnswers500 ==
  [][ /\ (~model \/ ~db) => (task = <<>> /\ store = <<>>)
      /\ (Answers("generate") /\ (~model \/ ~db)) =>
           /\ resp'.code = 500 /\ resp'.error = ERR_INIT /\ resp'.io = <<>>
           /\ task' = task /\ store' = store
      /\ (Answers("get_plan") /\ ~db) =>
           /\ resp'.code = 500 /\ resp'.error = ERR_DB /\ resp'.io = <<>>
           /\ task' = task /\ store' = store
      /\ (Answers("directions") /\ ~KAKAO_API_KEY) =>
           /\ resp'.code = 500 /\ resp'.error = ERR_NO_KEY /\ resp'.io = <<>>
           /\ task' = task /\ store' = store ]_vars

C8_Witness ==
  /\ ~model /\ db
  /\ resp.route = "generate" /\ resp.code = 500 /\ resp.error = ERR_INIT
  /\ task = <<>> /\ store = <<>>

\* C9: a record changes only in a step of the background task of its own
\* plan_id, and a step of a background task changes no record but its own.
C9_OnlyOwnerWrites ==
  [][ \A id \in PlanIds :
        ~SameRecord(id) =>
          /\ Started(id)
          /\ task'[id].pc # task[id].pc
          /\ \A other \in PlanIds \ {id} :
               /\ SameRecord(other)
               /\ Started(other) => task'[other] = task[other] ]_vars

\* one generation has failed and another one is still being processed
C9_Witness ==
  \E a, b \in DOMAIN store :
    /\ a # b
    /\ store[a].status = "failed"
    /\ store[b].status = "processing" /\ task[b].pc = "attempt"

\* C10: GET /get_plan/<id> answers 200 with exactly the record stored under
\* the id, 404 only when there is none (500 only when the store is not
\* initialized or its read raises), and changes neither the store nor any
\* task.
C10_GetPlanReadsOnly ==
  [][ Answers("get_plan") =>
        /\ store' = store /\ task' = task
        /\ resp'.code \in {200, 404, 500}
        /\ resp'.code = 200 =>
             (Exists(store, resp'.id) /\ resp'.body = store[resp'.id])
        /\ resp'.code = 404 =>
             (~Exists(store, resp'.id) /\ resp'.error = ERR_NOT_FOUND)
        /\ resp'.code = 500 =>
             (~db \/ resp'.error \in ExcMsgs) ]_vars

\* a completed record has been served while another record exists
C10_Witness ==
  /\ resp.route = "get_plan" /\ resp.code = 200
  /\ resp.body.status = "completed"
  /\ \E other \in DOMAIN store : other # resp.id /\ store[other] # resp.body

\* C11: for a routing response with at least one route the proxy answers
\* with the first route's summary: the distance as the tenth of a km nearest
\* to it, the duration as the whole minutes it contains; 12345 m and 1530 s
\* give 12.3 km and 25 minutes.
C11_SummaryReshaped ==
  (resp.route = "directions" /\ resp.code = 200) =>
    LET summary == resp.reply.routes[1]
        km10 == resp.body.distance_tenths_km
        min == resp.body.duration_min
    IN /\ 100 * km10 - 50 <= summary.distance
       /\ summary.distance <= 100 * km10 + 50
       /\ 60 * min <= summary.duration
       /\ summary.duration < 60 * (min + 1)
       /\ summary.distance = 12345 => km10 = 123
       /\ summary.duration = 1530 => min = 25

C11_Witness ==
  /\ resp.route = "directions" /\ resp.code = 200
  /\ resp.reply.routes[1] = [distance |-> 12345, duration |-> 1530]
  /\ resp.body = [distance_tenths_km |-> 123, duration_min |-> 25]

\* C12: with the routing key present, a request to the proxy makes at most
\* one upstream call; without origin or destination it gets 400 and no call
\* is made; an upstream answer without routes gives the no-route error, a
\* failed upstream call the upstream error; only an answer with a route is
\* reported as a success.
C12_OneCallNoRetry ==
  (resp.route = "directions" /\ KAKAO_API_KEY) =>
    LET called == resp.io # <<>>
    IN /\ Len(resp.io) <= 1
       /\ (~resp.request.origin \/ ~resp.request.destination) =>
            (resp.code = 400 /\ resp.error = ERR_NO_COORDS /\ ~called)
       /\ (called /\ resp.reply.kind = "ok" /\ resp.reply.routes = <<>>) =>
            (resp.code = 404 /\ resp.error = ERR_NO_ROUTE)
       /\ (called /\ resp.reply.kind # "ok") =>
            (resp.code = 500 /\ resp.error = ERR_KAKAO)
       /\ resp.code = 200 =>
            /\ called /\ resp.reply.kind = "ok" /\ resp.reply.routes # <<>>
            /\ resp.request.origin /\ resp.request.destination
       /\ resp.code \in {200, 400, 404, 500}

C12_Witness ==
  /\ resp.route = "directions" /\ KAKAO_API_KEY
  /\ resp.code = 500 /\ resp.error = ERR_KAKAO
  /\ resp.io = <<"routing.get">> /\ resp.reply.kind = "error"

\* the error text a client can observe for a generation: the body of a 500
\* answer of /generate, and the error of a 'failed' record
ObservedErrors ==
  (IF resp.route = "generate" /\ resp.code = 500 THEN {resp.error} ELSE {})
  \cup {store[id].error : id \in {q \in DOMAIN store : store[q].status = "failed"}}

\* C13 (as claimed): the error text a client can observe for a generation
\* does not depend on the message of the internal exception: of two runs
\* that differ only in that message (ExcMsgs holds two), neither shows it,
\* so the observed text is never one of the internal messages.
C13_InternalDetailMasked == ObservedErrors \cap ExcMsgs = {}

C15_RecordsWellFormed ==
  \A id \in DOMAIN store :
    LET rec == store[id]
    IN /\ rec.status \in {"processing", "completed", "failed"}
       /\ rec.status = "completed" =>
            /\ DOMAIN rec = {"plan", "request_details", "status"}
            /\ "daily_plans" \in DOMAIN rec.plan
            /\ rec.plan["daily_plans"].t = "list"
            /\ Len(rec.plan["daily_plans"].v) >= 1
       /\ rec.status = "failed" =>
            /\ DOMAIN rec = {"status", "error", "request_details"}
            /\ rec.error # ""
       /\ rec.status = "processing" =>
            DOMAIN rec = {"status", "request_details"}
       /\ Started(id) /\ rec.request_details = task[id].data

C15_Witness ==
  /\ Exists(store, 1) /\ store[1].status = "failed"
  /\ store[1].error = ERR_EXHAUSTED
  /\ store[1].request_details = [destination |-> "Busan", duration |-> "1 day"]
  /\ task[1].data = [destination |-> "Busan", duration |-> "1 day"]

\* is sequence p a proper prefix of sequence q
ProperPrefix(p, q) == Len(p) < Len(q) /\ SubSeq(q, 1, Len(p)) = p

\* C16: within one generation the prompt only grows at its end: the prompt
\* of attempt k+1 is the prompt of attempt k followed by one corrective
\* addendum, the one for the failure of attempt k, whichever of the three
\* retryable kinds it was; and the prompt the task holds extends every
\* prompt it has sent.
C16_PromptAppendOnly ==
  \A id \in DOMAIN task :
    LET t == task[id]
    IN /\ \A k \in 1..(Len(t.sent) - 1) :
            /\ ProperPrefix(t.sent[k], t.sent[k + 1])
            /\ \E a \in Addenda : t.sent[k + 1] = t.sent[k] \o <<a>>
            /\ t.replies[k] \in InvalidTexts =>
                 t.sent[k + 1] = t.sent[k] \o <<AddendumFor(t.replies[k])>>
       /\ \A k \in 1..Len(t.sent) :
            t.sent[k] = t.prompt \/ ProperPrefix(t.sent[k], t.prompt)

\* a second attempt was made after an output without a day list
C16_Witness ==
  /\ Started(1) /\ Len(task[1].sent) = 2
  /\ task[1].replies[1] = T_missing
  /\ task[1].sent[2] = BuildPrompt(task[1].data) \o <<ADD_NO_DAYS>>

\* the JSON objects that stand in a fenced block of the text: the marker,
\* white space, the object, white space, the closing back-ticks
FencedObjects(text) ==
  { SubSeq(text, a, b) : <<a, b>> \in
      { w \in (1..Len(text)) \X (1..Len(text)) :
          /\ w[1] < w[2]
          /\ JsonValid(SubSeq(text, w[1], w[2]))
          /\ \E s \in 1..(w[1] - 1) :
               /\ text[s] = "FENCE"
               /\ \A j \in (s + 1)..(w[1] - 1) : text[j] = "ws"
          /\ \E c \in (w[2] + 1)..Len(text) :
               /\ text[c] = "TICKS"
               /\ \A j \in (w[2] + 1)..(c - 1) : text[j] = "ws" } }

\* the span from the first "{" to the last "}", when there is one
HasSpan(text) ==
  \E a, b \in 1..Len(text) : a < b /\ text[a] = "{" /\ text[b] = "}"

BraceSpan(text) ==
  SubSeq(text, Min({k \in 1..Len(text) : text[k] = "{"}),
               Max({k \in 1..Len(text) : text[k] = "}"}))

\* C17: for every text the model returned, the candidate is the object of
\* the fenced block when the text holds a fenced JSON object; otherwise it
\* is the span from the first "{" to the last "}"; and when there is no such
\* span the attempt fails as 'not JSON': the attempt is used up, the prompt
\* gets the 'not JSON' addendum, and the record stays as it was.
C17_FencedFirstThenBraces ==
  \A id \in DOMAIN task :
    LET t == task[id]
    IN \A k \in 1..Len(t.replies) :
         LET text == t.replies[k]
             match == Extract(text)
         IN /\ FencedObjects(text) # {} =>
                 match.found /\ match.span \in FencedObjects(text)
            /\ (FencedObjects(text) = {} /\ HasSpan(text)) =>
                 match.found /\ match.span = BraceSpan(text)
            /\ (FencedObjects(text) = {} /\ ~HasSpan(text)) =>
                 /\ ~match.found
                 /\ t.i >= k
                 /\ k < Len(t.sent) => t.sent[k + 1] = t.sent[k] \o <<ADD_NOT_JSON>>
                 /\ k = Len(t.replies) =>
                      /\ t.prompt = t.sent[k] \o <<ADD_NOT_JSON>>
                      /\ t.validated = <<>>
                      /\ t.pc = "attempt" =>
                           Exists(store, id) /\ store[id].status = "processing"

\* the last model call of the task raised: a prompt was sent and no text
\* came back for it
ModelCallRaised(t) == Len(t.sent) > Len(t.replies)

\* C18: once a model call has raised, the loop is over: the task is in the
\* handler or past it, the raising call was its last one, the prompt is the
\* one that call was given (no addendum for it), nothing was validated, and
\* when the handler has written, the record is 'failed' with the message
\* of the exception.
C18_ModelExceptionNotRetried ==
  \A id \in DOMAIN task :
    LET t == task[id]
    IN ModelCallRaised(t) =>
         /\ t.pc \in {"except", "done", "crashed"}
         /\ t.calls = Len(t.sent) /\ Len(t.sent) = Len(t.replies) + 1
         /\ t.i = Len(t.replies)
         /\ t.prompt = t.sent[Len(t.sent)]
         /\ t.validated = <<>>
         /\ t.err \in ExcMsgs
         /\ t.pc = "done" =>
              /\ Exists(store, id) /\ store[id].status = "failed"
              /\ store[id].error = t.err

\* the first model call raised with an attempt still left
C18_Witness ==
  /\ Started(1) /\ task[1].pc = "done" /\ ModelCallRaised(task[1])
  /\ task[1].calls = 1 /\ task[1].i = 0
  /\ task[1].prompt = BuildPrompt(task[1].data)
  /\ Exists(store, 1) /\ store[1].status = "failed"
  /\ store[1].error = "internal error B"

\* the discipline of the calls of one generation: at most MAX_RETRIES model
\* calls, the validated attempt is the last call, a task whose record is
\* 'completed' or 'failed' is over, and the destination is geocoded at most
\* once, at a point where no model call has been made yet
CallDiscipline(id) ==
  LET t == task[id]
  IN /\ t.calls <= MAX_RETRIES /\ t.calls <= 2
     /\ t.calls = Len(t.sent)
     /\ t.validated # <<>> =>
          /\ t.pc \in {"save", "except", "done", "crashed"}
          /\ t.calls = Len(t.replies)
          /\ Validate(t.replies[t.calls]).kind = "valid"
          /\ \A k \in 1..(t.calls - 1) : Validate(t.replies[k]).kind # "valid"
     /\ Settled(id) => t.pc = "done"
     /\ t.gcalls <= 1
     /\ t.pc = "begin" => t.gcalls = 0
     /\ t.pc \in {"begin", "geocode"} => t.calls = 0

C20_GeocodeFailureHarmless ==
  \A id \in DOMAIN task :
    LET t == task[id]
        parsed == JsonLoads(t.validated)
    IN /\ (t.pc \notin {"begin", "geocode"} /\ ~t.raised /\ ~t.geo.found) =>
            /\ t.pc \in {"attempt", "save", "except", "done"}
            /\ t.pc # "attempt" => t.calls >= 1
            /\ t.pc = "done" =>
                 /\ Settled(id)
                 /\ t.validated # <<>> => store[id].status = "completed"
       /\ (Exists(store, id) /\ store[id].status = "completed") =>
            LET plan == store[id].plan
            IN /\ t.validated # <<>>
               /\ (~t.geo.found \/ t.geo.country_code = NoCountry) => plan = parsed
               /\ (t.geo.found /\ t.geo.country_code # NoCountry) =>
                    /\ DOMAIN plan = DOMAIN parsed \cup {"country_code"}
                    /\ plan["country_code"] = t.geo.country_code
                    /\ \A key \in DOMAIN parsed \ {"country_code"} :
                         plan[key] = parsed[key]

\* the lookup was made and returned nothing, and the plan of the first
\* attempt was stored as the model gave it
C20_Witness ==
  /\ Started(1) /\ task[1].pc = "done" /\ ~task[1].raised
  /\ task[1].gcalls = 1 /\ ~task[1].geo.found
  /\ task[1].replies = <<T_fenced>>
  /\ Exists(store, 1) /\ store[1].status = "completed"
  /\ store[1].plan = PlanIn(T_fenced)

====
